---- MODULE Spec2Model ----
(***************************************************************************)
(* Model of the song recommender (Recommender/recommend.py).               *)
(*                                                                         *)
(* A catalog is the pandas DataFrame `df` handed to recommend_from_song:   *)
(* its numeric columns, the 'song' column and one cell per row and numeric *)
(* column.  Rows are numbered 1..N here (0..N-1 in the code; the loader    *)
(* resets the index, so label and position agree).                         *)
(*                                                                         *)
(* Arithmetic.  StandardScaler divides by a standard deviation (a square   *)
(* root) and cosine_similarity by two norms, so the scores are irrational  *)
(* in general.  The model keeps them exact: with d[i,c] = N*x[i,c] - S[c]  *)
(* and V[c] = N*SUM x^2 - S[c]^2 (N times the deviation, N^2 times the     *)
(* variance) the dot product of two standardized rows is                   *)
(* SUM_c d[i,c]*d[k,c]/V[c] over the columns with V[c] # 0, and a score is *)
(* kept as the signed square of the cosine, a reduced fraction; the order  *)
(* and the equality of scores are those of the real numbers.  Rounding of  *)
(* float64 is not modelled.                                                *)
(***************************************************************************)
EXTENDS Integers, Sequences, FiniteSets, TLC

VARIABLES df, tieRank, call, ret, prev, frames, auth, login, loader, hist,
          export, select, page

vars == <<df, tieRank, call, ret, prev, frames, auth, login, loader, hist,
          export, select, page>>

(* ------------------------------ bounds -------------------------------- *)
MaxRows == 3
MaxCount == 2

\* the calls that may run at the same time
NumCalls == 2

\* the most rows of a CSV file given to the loader
MaxCsvRows == 2

\* the largest max_history given to track_recommendation, and the most
\* calls of it in a session
MaxHistory == 2
MaxTracked == 4

\* the most rows of an export whose search answers are enumerated freely
MaxExportRows == 3

\* the most songs of a catalog offered for a custom playlist
MaxSelectRows == 2

\* the most recommendation requests of one browser session
MaxPageTracked == 2

\* the largest values of get_spotify_client's parameters retries and delay
MaxRetries == 4
MaxDelay == 3

(* ----------------------------- constants ------------------------------ *)
\* a missing cell (NaN) of the DataFrame
NaN == -1

\* default of the parameter n
DefaultN == 10

exclude_cols == {"artist", "song", "duration_ms", "explicit", "year", "popularity", "genre"}

fallback_exclude == {"year", "popularity"}

\* Recommender/features.py and audio_feature_columns of the loader
FEATURE_COLS ==
  {"danceability", "energy", "key", "loudness", "mode", "speechiness", "acousticness",
   "instrumentalness", "liveness", "valence", "tempo", "duration_ms"}

\* non_feature_cols of the loader
non_feature_cols == {"id", "duration_ms", "year", "popularity"}

Names == <<"A", "B", "C", "D", "E", "F", "G", "H">>

AbsentSong == "nonexistent-id"

(* ------------------------------ helpers ------------------------------- *)
Sgn(x) == IF x < 0 THEN -1 ELSE IF x = 0 THEN 0 ELSE 1

Min(a, b) == IF a < b THEN a ELSE b

RECURSIVE GCD(_, _)
GCD(a, b) == IF b = 0 THEN a ELSE GCD(b, a % b)

LCM(a, b) == (a \div GCD(a, b)) * b

RECURSIVE SumOver(_, _)
SumOver(S, f) ==
  IF S = {} THEN 0
  ELSE LET x == CHOOSE y \in S : TRUE IN f[x] + SumOver(S \ {x}, f)

RECURSIVE LcmOver(_)
LcmOver(S) ==
  IF S = {} THEN 1
  ELSE LET x == CHOOSE y \in S : TRUE IN LCM(x, LcmOver(S \ {x}))

\* a/b < c/d for b > 0 and d > 0, by continued fractions (no products)
RECURSIVE FracLess(_, _, _, _)
FracLess(a, b, c, d) ==
  LET qa == a \div b
      qc == c \div d
      ra == a % b
      rc == c % d
  IN IF qa # qc THEN qa < qc
     ELSE IF ra = 0 THEN rc > 0
     ELSE IF rc = 0 THEN FALSE
     ELSE FracLess(d, rc, b, ra)

\* the function f itself, as a table of its values
Tabulated(f) == f @@ <<>>

Perms(n) == {p \in [1..n -> 1..n] : \A i, j \in 1..n : i # j => p[i] # p[j]}

(* --------------------------- the DataFrame ---------------------------- *)
NRows(d) == Len(d.song)

Rows(d) == 1..NRows(d)

\* df.select_dtypes(include=['float64', 'int64']).columns
numeric_cols(d) == d.cols

\* feature_cols of recommend_from_song, fallback included
FeatureCols(d) ==
  LET first == {c \in numeric_cols(d) : c \notin exclude_cols}
  IN IF first # {} THEN first
     ELSE {c \in numeric_cols(d) : c \notin fallback_exclude}

\* available_features of load_songs_from_csv: the canonical features the
\* catalog has, else its other numeric columns
available_features(d) ==
  LET canon == {c \in FEATURE_COLS : c \in numeric_cols(d)}
  IN IF canon # {} THEN canon
     ELSE {c \in numeric_cols(d) : c \notin non_feature_cols}

\* numeric_df = df[feature_cols].fillna(0)
Filled(d, i, c) == IF d.val[i][c] = NaN THEN 0 ELSE d.val[i][c]

(* --------------------- StandardScaler.fit_transform ------------------- *)
\* scaler.fit: per feature column, N times the mean (sum) and N^2 times
\* the population variance (var); a column of variance 0 gets scale_ 1
Fit(d) ==
  LET F == FeatureCols(d)
      R == Rows(d)
      sum == Tabulated([c \in F |-> SumOver(R, [i \in R |-> Filled(d, i, c)])])
      sq == Tabulated([c \in F |->
                         SumOver(R, [i \in R |-> Filled(d, i, c) * Filled(d, i, c)])])
      var == Tabulated([c \in F |-> NRows(d) * sq[c] - sum[c] * sum[c]])
  IN [sum |-> sum, var |-> var]

\* columns of nonzero variance; the others standardize to 0 in every row
VaryingCols(d, scaler) == {c \in FeatureCols(d) : scaler.var[c] # 0}

\* the mean not subtracted
Transform_NotCentered(d, scaler) ==
  Tabulated([i \in Rows(d) |->
               Tabulated([c \in FeatureCols(d) |-> NRows(d) * Filled(d, i, c)])])

\* scaler.transform: cell (i, c) of features_scaled is dev[i][c] / sqrt(var[c])
\* where dev is N times the deviation from the column mean
Transform(d, scaler) ==
  Tabulated([i \in Rows(d) |->
               Tabulated([c \in FeatureCols(d) |->
                            NRows(d) * Filled(d, i, c) - scaler.sum[c]])])

\* weight[c] / lcm = 1 / var[c], for the varying columns
Weights(d, scaler) ==
  LET VC == VaryingCols(d, scaler)
      lcm == LcmOver({scaler.var[c] : c \in VC})
  IN Tabulated([c \in VC |-> lcm \div scaler.var[c]])

\* the dot product of the standardized rows i and k (times the lcm)
Dot(dev, weight, i, k) ==
  SumOver(DOMAIN weight, [c \in DOMAIN weight |-> dev[i][c] * dev[k][c] * weight[c]])

\* the table of dot products of features_scaled
Gram(d) ==
  LET scaler == Fit(d)
      dev == Transform(d, scaler)
      weight == Weights(d, scaler)
  IN Tabulated([i \in Rows(d) |-> Tabulated([k \in Rows(d) |-> Dot(dev, weight, i, k)])])

(* -------------------------- cosine_similarity ------------------------- *)
\* the score of row k against row q, as <<num, den>>: the signed square of
\* the cosine, in lowest terms; a zero norm gives 0
Sim(gram, q, k) ==
  LET a == gram[q][k]
      qq == gram[q][q]
      kk == gram[k][k]
  IN IF qq = 0 \/ kk = 0 \/ a = 0 THEN <<0, 1>>
     ELSE LET n == a * a
              m == qq * kk
              g == GCD(n, m)
          IN <<Sgn(a) * (n \div g), m \div g>>

\* cosine_similarity(target_vector, features_scaled)[0]
Sims(d, idx) ==
  LET gram == Gram(d)
  IN Tabulated([k \in Rows(d) |-> Sim(gram, idx, k)])

ScoreLess(s, t) == FracLess(s[1], s[2], t[1], t[2])

(* ------------------------------ ranking ------------------------------- *)
\* sims.argsort(): ascending by score; numpy's default sort is not stable,
\* the order of equal scores is the build's, given by rank
Before(sims, rank, i, j) ==
  \/ ScoreLess(sims[i], sims[j])
  \/ sims[i] = sims[j] /\ rank[i] < rank[j]

Argsort(sims, rank) ==
  LET n == Len(sims)
      pos == Tabulated([i \in 1..n |->
                          1 + Cardinality({j \in 1..n : Before(sims, rank, j, i)})])
  IN Tabulated([k \in 1..n |-> CHOOSE i \in 1..n : pos[i] = k])

\* the reversal forgotten
Reversed_Forgotten(a) == a

\* a[::-1]
Reversed(a) == [k \in 1..Len(a) |-> a[Len(a) + 1 - k]]

\* a[1:n], the slice one short
SliceFrom1_OneShort(a, n) == [k \in 1..Min(n - 1, Len(a) - 1) |-> a[k + 1]]

\* a[1:n+1] for n >= 1
SliceFrom1(a, n) == [k \in 1..Min(n, Len(a) - 1) |-> a[k + 1]]

\* sims.argsort()[::-1][1:n+1]
SimilarIndices(sims, rank, n) == SliceFrom1(Reversed(Argsort(sims, rank)), n)

(* ------------------------ recommend_from_song ------------------------- *)
\* df[df[track_column] == song_name].index[0]
IndexOf(d, song_name) == CHOOSE i \in Rows(d) :
  /\ d.song[i] = song_name
  /\ \A j \in Rows(d) : d.song[j] = song_name => i <= j

SongIn(d, song_name) == \E i \in Rows(d) : d.song[i] = song_name

Returned(recs) == [kind |-> "returned", error |-> "", recs |-> recs]

Raised(e) == [kind |-> "raised", error |-> e, recs |-> <<>>]

NoCall == [kind |-> "none", error |-> "", recs |-> <<>>]

NoFeatures == "ValueError: No numeric features found for recommendations"

\* the check of an empty feature list left out
recommend_from_song_NoRaise(song_name, d, n, rank) ==
  IF ~SongIn(d, song_name) THEN Returned(<<>>)
  ELSE LET idx == IndexOf(d, song_name)
           sims == Sims(d, idx)
           similar_indices == SimilarIndices(sims, rank, n)
       IN Returned([k \in 1..Len(similar_indices) |->
                      [row |-> similar_indices[k],
                       song |-> d.song[similar_indices[k]],
                       similarity |-> sims[similar_indices[k]]]])

recommend_from_song(song_name, d, n, rank) ==
  IF ~SongIn(d, song_name) THEN Returned(<<>>)
  ELSE IF FeatureCols(d) = {} THEN Raised(NoFeatures)
  ELSE LET idx == IndexOf(d, song_name)
           sims == Sims(d, idx)
           similar_indices == SimilarIndices(sims, rank, n)
       IN Returned([k \in 1..Len(similar_indices) |->
                      [row |-> similar_indices[k],
                       song |-> d.song[similar_indices[k]],
                       similarity |-> sims[similar_indices[k]]]])

(* ------------------------------ catalogs ------------------------------ *)
\* the numeric columns of a modelled catalog: none; only 'year' (excluded
\* twice); only 'duration_ms' (used by the fallback); one or two ordinary
\* features; an ordinary feature next to 'duration_ms'
ColumnSets ==
  {{}, {"year"}, {"duration_ms"}, {"energy"}, {"energy", "tempo"}, {"energy", "duration_ms"}}

\* the cells of a catalog of n rows; the largest catalogs have no missing cell
CellVals(n) == IF n < MaxRows THEN {NaN, 0, 1} ELSE {0, 1}

\* the 'song' column: distinct titles, and for two rows also one shared
\* title (the loader removes duplicate ids, not duplicate titles)
TitleSeqs(n) ==
  {[i \in 1..n |-> Names[i]]} \cup (IF n = 2 THEN {[i \in 1..n |-> Names[1]]} ELSE {})

GenericCatalogs ==
  UNION {UNION {{[cols |-> C, song |-> t, val |-> v] :
                    t \in TitleSeqs(n), v \in [1..n -> [C -> CellVals(n)]]} :
                C \in ColumnSets} :
         n \in 0..MaxRows}

\* A=(0,0), B=(0,0), C=(10,10), D=(1,1), E=(5,5)
ScenarioVals == <<0, 0, 10, 1, 5>>

ScenarioCatalog ==
  [cols |-> {"energy", "tempo"},
   song |-> [i \in 1..5 |-> Names[i]],
   val |-> [i \in 1..5 |-> [c \in {"energy", "tempo"} |-> ScenarioVals[i]]]]

Catalogs == GenericCatalogs \cup {ScenarioCatalog}

\* the call of the five-song scenario
ScenarioCall == [song |-> "A", n |-> 3]

Counts(d) ==
  (1..MaxCount) \cup {DefaultN} \cup (IF d = ScenarioCatalog THEN {ScenarioCall.n} ELSE {})

Queries(d) == {d.song[i] : i \in Rows(d)} \cup {AbsentSong}

(* ------------------ the other components, when idle ------------------ *)
NoArgs == [song |-> "", n |-> 0]

\* no earlier call remembered
NoPrev == [call |-> NoArgs, ret |-> NoCall, between |-> FALSE]

\* no concurrent calls
NoFrames == <<>>

\* get_spotify_client not called
AuthIdle == [pc |-> "idle", retries |-> 0, delay |-> 0, attempt |-> 0, slept |-> 0,
             result |-> "none"]

\* a key that st.session_state does not hold
Absent == "<absent>"

None == "<None>"

NoneTriple == <<None, None, None>>

\* st.session_state without any of the login keys
EmptySession == [sp |-> Absent, user_id |-> Absent, display_name |-> Absent,
                 authenticated |-> Absent]

\* the login page shown to a fresh session: nothing stored, no message.
\* stored is the triple the last successful login wrote, loggedOut whether
\* logout() ran since, outcome how the last handling of a click on Login
\* ended.
LoginIdle == [pc |-> "page", sess |-> EmptySession, stored |-> NoneTriple,
              loggedOut |-> FALSE, outcome |-> "none", message |-> "",
              process |-> "running"]

\* no CSV file given to the loader
LoaderIdle == [pc |-> "idle", csv |-> [columns |-> <<>>, rows |-> <<>>],
               kind |-> "none", rows |-> <<>>]

\* a session before any recommendation: the key 'recommendations_history'
\* is not held. log is every tracked call of the session, oldest first;
\* max_history the argument of the last call.
HistIdle == [present |-> FALSE, history |-> <<>>, log |-> <<>>, max_history |-> 0,
             tracked |-> FALSE]

\* no playlist export running. outcomes is what sp.search will answer for
\* each row; playlist the answer of user_playlist_create and created whether
\* the service now holds that playlist; i the row the loop is at; uris,
\* added and failed the three lists (rows by their position); next the
\* index of the batch loop; sent the batches given to playlist_add_items;
\* result how the call ended; ui what the caller then showed.
ExportIdle == [pc |-> "idle", fn |-> "", outcomes |-> <<>>, playlist |-> "none",
               created |-> FALSE, i |-> 0, uris |-> <<>>, added |-> <<>>,
               failed |-> <<>>, next |-> 0, sent |-> <<>>, result |-> "none",
               ui |-> ""]

\* no custom playlist asked for. songs is the catalog (title and artist),
\* chosen the display entries picked in the multiselect, rows the catalog
\* rows given to the exporter.
SelectIdle == [pc |-> "idle", songs |-> <<>>, chosen |-> {}, rows |-> <<>>]

\* a fresh browser session between two script runs. sess, recommendations,
\* selected_song and history (held if has_history) are st.session_state.
\* view and pc are the page that runs and where its run is; authed, loaded
\* and acted say whether this run found or made the session authenticated,
\* loaded the catalog, and recommended or exported; shown is what the run
\* displayed as recommended songs; owner is the user whose request stored
\* the recommendations; loggedOut whether logout() ran since the last login.
PageIdle == [pc |-> "idle", view |-> "", sess |-> EmptySession,
             recommendations |-> Absent, selected_song |-> Absent,
             history |-> <<>>, has_history |-> FALSE, owner |-> None,
             loggedOut |-> FALSE, authed |-> FALSE, loaded |-> FALSE,
             acted |-> FALSE, shown |-> Absent, shownTo |-> None,
             process |-> "running"]

(* --------------------------- state machine ---------------------------- *)
Init ==
  /\ df \in Catalogs
  /\ tieRank \in Perms(NRows(df))
  /\ call = NoArgs
  /\ ret = NoCall
  /\ prev = NoPrev
  /\ frames = NoFrames
  /\ auth = AuthIdle
  /\ login = LoginIdle
  /\ loader = LoaderIdle
  /\ hist = HistIdle
  /\ export = ExportIdle
  /\ select = SelectIdle
  /\ page = PageIdle

\* the call run again with the order of equal scores turned round
Recommend_UnstableTies(song_name, n) ==
  /\ ret.kind = "none"
  /\ call' = [song |-> song_name, n |-> n]
  /\ ret' = recommend_from_song(song_name, df, n, tieRank)
  /\ tieRank' = [i \in DOMAIN tieRank |-> Len(tieRank) + 1 - tieRank[i]]
  /\ UNCHANGED <<df, prev, frames, auth, login, loader, hist, export, select, page>>

\* the call with the missing cells filled in the caller's DataFrame
\* (df.fillna(0, inplace=True))
Recommend_FillInPlace(song_name, n) ==
  /\ ret.kind = "none"
  /\ call' = [song |-> song_name, n |-> n]
  /\ ret' = recommend_from_song(song_name, df, n, tieRank)
  /\ df' = IF ret'.kind = "returned" /\ SongIn(df, song_name)
           THEN [df EXCEPT !.val = [i \in Rows(df) |-> [c \in df.cols |-> Filled(df, i, c)]]]
           ELSE df
  /\ UNCHANGED <<tieRank, prev, frames, auth, login, loader, hist, export, select, page>>

\* one call recommend_from_song(song_name, df, n), up to its return or raise
Recommend(song_name, n) ==
  /\ ret.kind = "none"
  /\ call' = [song |-> song_name, n |-> n]
  /\ ret' = recommend_from_song(song_name, df, n, tieRank)
  /\ UNCHANGED <<df, tieRank, prev, frames, auth, login, loader, hist, export, select, page>>

\* the call is over: the caller has the result (or the error) and the
\* function keeps nothing of it
CallEnds ==
  /\ ret.kind # "none"
  /\ call' = NoArgs
  /\ ret' = NoCall
  /\ UNCHANGED <<df, tieRank, prev, frames, auth, login, loader, hist, export, select, page>>

Next ==
  \/ \E song_name \in Queries(df), n \in Counts(df) : Recommend(song_name, n)
  \/ CallEnds

Spec == Init /\ [][Next]_vars

(* ------------------------- repeated calls ----------------------------- *)
\* The same calls, with the outcome of one earlier call kept by the caller
\* (prev) to compare a later call with.
NoMissingCell(d) == \A i \in Rows(d) : \A c \in d.cols : d.val[i][c] # NaN

RepeatCatalogs ==
  {d \in GenericCatalogs :
     /\ NRows(d) < MaxRows
     /\ d.cols \in {{}, {"energy"}, {"energy", "tempo"}}
     /\ NoMissingCell(d)} \cup {ScenarioCatalog}

InitRepeat ==
  /\ df \in RepeatCatalogs
  /\ tieRank \in Perms(NRows(df))
  /\ call = NoArgs
  /\ ret = NoCall
  /\ prev = NoPrev
  /\ frames = NoFrames
  /\ auth = AuthIdle
  /\ login = LoginIdle
  /\ loader = LoaderIdle
  /\ hist = HistIdle
  /\ export = ExportIdle
  /\ select = SelectIdle
  /\ page = PageIdle

\* the call is over and the caller keeps its outcome
CallEndsKept ==
  /\ ret.kind # "none"
  /\ prev' = [call |-> call, ret |-> ret, between |-> FALSE]
  /\ call' = NoArgs
  /\ ret' = NoCall
  /\ UNCHANGED <<df, tieRank, frames, auth, login, loader, hist, export, select, page>>

\* the call is over and the caller drops its outcome; a kept outcome of a
\* different call has now another call after it
CallEndsDropped ==
  /\ ret.kind # "none"
  /\ prev' = IF prev # NoPrev /\ prev.call # call
             THEN [prev EXCEPT !.between = TRUE] ELSE prev
  /\ call' = NoArgs
  /\ ret' = NoCall
  /\ UNCHANGED <<df, tieRank, frames, auth, login, loader, hist, export, select, page>>

NextRepeat ==
  \/ \E song_name \in Queries(df), n \in Counts(df) : Recommend(song_name, n)
  \/ CallEndsKept
  \/ CallEndsDropped

SpecRepeat == InitRepeat /\ [][NextRepeat]_vars

(* ------------------------------ properties ---------------------------- *)
\* a call has returned or raised and its outcome is in ret
Called == ret.kind # "none"

QueryPresent == SongIn(df, call.song)

\* the row of the query song (meaningful when QueryPresent)
QueryRow == IndexOf(df, call.song)

RecRows == {ret.recs[k].row : k \in DOMAIN ret.recs}

ValidCall == Called /\ NRows(df) >= 1 /\ QueryPresent /\ call.n >= 1

\* C1: for a non-empty catalog, a query present in it and a count >= 1,
\* the result never contains the query song's own row.
C1_SelfExclusion ==
  (ValidCall /\ ret.kind = "returned") => QueryRow \notin RecRows

\* C2: the result is the min(count, N-1) highest-scoring rows among all rows
\* other than the query's row: it has that many rows, none is the query's
\* row, and no row left out (other than the query's) scores higher than a
\* row of the result.
C2_OthersEligible ==
  (ValidCall /\ ret.kind = "returned") =>
    /\ Len(ret.recs) = Min(call.n, NRows(df) - 1)
    /\ QueryRow \notin RecRows
    /\ LET sims == Sims(df, QueryRow)
       IN \A o \in Rows(df) \ (RecRows \cup {QueryRow}) :
            \A k \in DOMAIN ret.recs : ~ScoreLess(ret.recs[k].similarity, sims[o])

\* C3: two entries of the result with exactly equal scores appear in
\* catalog row order.
C3_StableTies ==
  \A k, l \in DOMAIN ret.recs :
    (k < l /\ ret.recs[k].similarity = ret.recs[l].similarity)
      => ret.recs[k].row < ret.recs[l].row

\* C4: a query absent from a non-empty catalog makes the call fail with
\* SongNotFoundError.
C4_SongNotFound ==
  (Called /\ NRows(df) >= 1 /\ ~QueryPresent) => ret = Raised("SongNotFoundError")

\* C5: an empty result is returned only when the catalog has exactly one
\* song.
C5_EmptyOnlyForSingleSong ==
  (ret.kind = "returned" /\ ret.recs = <<>>) => NRows(df) = 1

\* C6 (as stated): for every non-empty catalog, query present in it and
\* count >= 1 the call succeeds with exactly min(count, N-1) entries.
C6_CountBound_AnyCatalog ==
  ValidCall => (ret.kind = "returned" /\ Len(ret.recs) = Min(call.n, NRows(df) - 1))

\* C6 (amended): the same for every non-empty catalog that has at least one
\* usable feature column.
C6_CountBound ==
  (ValidCall /\ FeatureCols(df) # {}) =>
    (ret.kind = "returned" /\ Len(ret.recs) = Min(call.n, NRows(df) - 1))

C6_Witness ==
  /\ ValidCall /\ FeatureCols(df) # {} /\ ret.kind = "returned"
  /\ call.n < NRows(df) - 1
  /\ Len(ret.recs) = call.n

\* C7: on the five-song scenario, query A and count 3, the result is B, D
\* and then E or C, without A.
C7_Scenario ==
  (Called /\ df = ScenarioCatalog /\ call = ScenarioCall) =>
    /\ ret.kind = "returned"
    /\ Len(ret.recs) = 3
    /\ ret.recs[1].song = "B"
    /\ ret.recs[2].song = "D"
    /\ ret.recs[3].song \in {"E", "C"}
    /\ \A k \in DOMAIN ret.recs : ret.recs[k].song # "A"

\* C8: the scores of the result are non-increasing from first to last.
C8_NonIncreasing ==
  \A k, l \in DOMAIN ret.recs :
    k < l => ~ScoreLess(ret.recs[k].similarity, ret.recs[l].similarity)

C8_Witness ==
  /\ ret.kind = "returned"
  /\ \E k, l \in DOMAIN ret.recs :
       k < l /\ ScoreLess(ret.recs[l].similarity, ret.recs[k].similarity)

\* C9 (as stated): with zero usable feature columns the call (here on a
\* non-empty catalog) fails with the no-features error, whatever the query.
C9_NoFeatures_AnyQuery ==
  (Called /\ NRows(df) >= 1 /\ FeatureCols(df) = {}) => ret = Raised(NoFeatures)

\* C9 (amended): with zero usable feature columns and a query present in
\* the catalog the call fails with the no-features error and returns no
\* result.
C9_NoFeatures ==
  (Called /\ FeatureCols(df) = {} /\ QueryPresent) => ret = Raised(NoFeatures)

C9_Witness ==
  /\ Called /\ QueryPresent /\ numeric_cols(df) = {"year"}
  /\ ret = Raised(NoFeatures)

\* C10: a call on a catalog with zero rows fails with EmptyCatalogError.
C10_EmptyCatalog ==
  (Called /\ NRows(df) = 0) => ret = Raised("EmptyCatalogError")

\* C11: the feature columns used for scoring are the canonical feature list
\* intersected with the catalog's columns, and only when that is empty the
\* other numeric columns outside the exclusion set.
C11_CanonicalSchema ==
  (Called /\ QueryPresent) => FeatureCols(df) = available_features(df)

Procs == 1..NumCalls

IdleFrame == [pc |-> "idle", song |-> "", n |-> 0, idx |-> 0, ret |-> NoCall]

\* two-row catalogs without a missing cell: one feature, or no numeric column
ConcCatalogs ==
  {d \in GenericCatalogs :
     NRows(d) = 2 /\ d.cols \in {{}, {"energy"}} /\ NoMissingCell(d)}

ConcCounts == {1, MaxCount}

InitConc ==
  /\ df \in ConcCatalogs
  /\ tieRank \in Perms(NRows(df))
  /\ call = NoArgs
  /\ ret = NoCall
  /\ prev = NoPrev
  /\ frames = [p \in Procs |-> IdleFrame]
  /\ auth = AuthIdle
  /\ login = LoginIdle
  /\ loader = LoaderIdle
  /\ hist = HistIdle
  /\ export = ExportIdle
  /\ select = SelectIdle
  /\ page = PageIdle

\* the local written to a module-level name all calls share
StoreLocal_Global(fs, p, name, v) ==
  [q \in DOMAIN fs |-> [fs[q] EXCEPT ![name] = v]]

\* an assignment to a local of call p
StoreLocal(fs, p, name, v) ==
  [fs EXCEPT ![p][name] = v]

\* lines 34-65 from the locals idx and n: scale, score, rank, build recs
ScoreFrom(d, idx, n, rank) ==
  LET sims == Sims(d, idx)
      similar_indices == SimilarIndices(sims, rank, n)
  IN Returned([k \in 1..Len(similar_indices) |->
                 [row |-> similar_indices[k],
                  song |-> d.song[similar_indices[k]],
                  similarity |-> sims[similar_indices[k]]]])

\* a caller enters recommend_from_song(song_name, df, n)
Enter(p, song_name, n) ==
  /\ frames[p].pc = "idle"
  /\ frames' = [frames EXCEPT ![p] = [IdleFrame EXCEPT !.pc = "entered",
                                                       !.song = song_name, !.n = n]]
  /\ UNCHANGED <<df, tieRank, call, ret, prev, auth, login, loader, hist, export, select, page>>

\* if song_name not in df[track_column].values: return pd.DataFrame()
\* idx = df[df[track_column] == song_name].index[0]
Lookup(p) ==
  /\ frames[p].pc = "entered"
  /\ frames' =
       IF SongIn(df, frames[p].song)
       THEN [StoreLocal(frames, p, "idx", IndexOf(df, frames[p].song))
               EXCEPT ![p].pc = "found"]
       ELSE [StoreLocal(frames, p, "ret", Returned(<<>>)) EXCEPT ![p].pc = "done"]
  /\ UNCHANGED <<df, tieRank, call, ret, prev, auth, login, loader, hist, export, select, page>>

\* feature_cols = ...; if not feature_cols: raise ValueError
SelectFeatures(p) ==
  /\ frames[p].pc = "found"
  /\ frames' =
       IF FeatureCols(df) = {}
       THEN [StoreLocal(frames, p, "ret", Raised(NoFeatures)) EXCEPT ![p].pc = "done"]
       ELSE [frames EXCEPT ![p].pc = "selected"]
  /\ UNCHANGED <<df, tieRank, call, ret, prev, auth, login, loader, hist, export, select, page>>

\* scaling, scoring and ranking, up to return recs
Score(p) ==
  /\ frames[p].pc = "selected"
  /\ frames' =
       [StoreLocal(frames, p, "ret", ScoreFrom(df, frames[p].idx, frames[p].n, tieRank))
          EXCEPT ![p].pc = "done"]
  /\ UNCHANGED <<df, tieRank, call, ret, prev, auth, login, loader, hist, export, select, page>>

\* the caller has taken the outcome; the frame is gone
Leave(p) ==
  /\ frames[p].pc = "done"
  /\ frames' = [frames EXCEPT ![p] = IdleFrame]
  /\ UNCHANGED <<df, tieRank, call, ret, prev, auth, login, loader, hist, export, select, page>>

NextConc ==
  \E p \in Procs :
    \/ \E song_name \in Queries(df), n \in ConcCounts : Enter(p, song_name, n)
    \/ Lookup(p)
    \/ SelectFeatures(p)
    \/ Score(p)
    \/ Leave(p)

SpecConc == InitConc /\ [][NextConc]_vars

\* C14: in every interleaving of concurrent calls on one catalog, each call
\* works on its own locals (its row index is the one of its own query) and
\* returns what the same call returns when it runs alone.
C14_Isolated ==
  \A p \in Procs :
    /\ frames[p].pc \in {"found", "selected"} =>
         frames[p].idx = IndexOf(df, frames[p].song)
    /\ frames[p].pc = "done" =>
         frames[p].ret = recommend_from_song(frames[p].song, df, frames[p].n, tieRank)

C14_Witness ==
  \E p, q \in Procs :
    /\ frames[p].pc = "done" /\ frames[p].ret.recs # <<>>
    /\ frames[q].pc = "selected" /\ frames[q].idx # frames[p].idx

(* ------------------------- get_spotify_client ------------------------- *)
\* auth.attempt is the loop variable, auth.slept the seconds spent in
\* time.sleep, auth.result how the call ended: "client" (return sp),
\* "exit" (sys.exit(1)), "None" (the end of the body reached).
DefaultRetries == 3

DefaultDelay == 3

\* the call entered: for attempt in range(1, retries + 1)
ClientCall(retries, delay) ==
  IF retries >= 1
  THEN [pc |-> "attempt", retries |-> retries, delay |-> delay, attempt |-> 1,
        slept |-> 0, result |-> "none"]
  ELSE [pc |-> "done", retries |-> retries, delay |-> delay, attempt |-> 0,
        slept |-> 0, result |-> "None"]

\* except SpotifyOauthError: sleep and retry, or sys.exit(1) on the last attempt
OauthError(a) ==
  IF a.attempt < a.retries THEN [a EXCEPT !.pc = "sleep"]
  ELSE [a EXCEPT !.pc = "done", !.result = "exit"]

InitAuth ==
  /\ df = [cols |-> {}, song |-> <<>>, val |-> <<>>]
  /\ tieRank = <<>>
  /\ call = NoArgs
  /\ ret = NoCall
  /\ prev = NoPrev
  /\ frames = NoFrames
  /\ auth = AuthIdle
  /\ login = LoginIdle
  /\ loader = LoaderIdle
  /\ hist = HistIdle
  /\ export = ExportIdle
  /\ select = SelectIdle
  /\ page = PageIdle

\* get_spotify_client(retries, delay) is called
GetClient(retries, delay) ==
  /\ auth.pc = "idle"
  /\ auth' = ClientCall(retries, delay)
  /\ UNCHANGED <<df, tieRank, call, ret, prev, frames, login, loader, hist, export, select, page>>

\* the attempt passes the sanity check sp.current_user(): return sp
AttemptSucceeds ==
  /\ auth.pc = "attempt"
  /\ auth' = [auth EXCEPT !.pc = "done", !.result = "client"]
  /\ UNCHANGED <<df, tieRank, call, ret, prev, frames, login, loader, hist, export, select, page>>

\* the attempt raises SpotifyOauthError
AttemptOauthError ==
  /\ auth.pc = "attempt"
  /\ auth' = OauthError(auth)
  /\ UNCHANGED <<df, tieRank, call, ret, prev, frames, login, loader, hist, export, select, page>>

\* the attempt raises another Exception: sys.exit(1)
AttemptUnexpectedError ==
  /\ auth.pc = "attempt"
  /\ auth' = [auth EXCEPT !.pc = "done", !.result = "exit"]
  /\ UNCHANGED <<df, tieRank, call, ret, prev, frames, login, loader, hist, export, select, page>>

\* time.sleep(delay) is over; the loop takes the next attempt
NextAttempt ==
  /\ auth.pc = "sleep"
  /\ auth' = [auth EXCEPT !.pc = "attempt", !.attempt = @ + 1, !.slept = @ + auth.delay]
  /\ UNCHANGED <<df, tieRank, call, ret, prev, frames, login, loader, hist, export, select, page>>

NextAuth ==
  \/ \E retries \in (-1)..MaxRetries, delay \in 0..MaxDelay : GetClient(retries, delay)
  \/ AttemptSucceeds
  \/ AttemptOauthError
  \/ AttemptUnexpectedError
  \/ NextAttempt

SpecAuth == InitAuth /\ [][NextAuth]_vars

\* C16: for every value of retries, get_spotify_client makes at most
\* `retries` attempts and ends either by returning a client or in a terminal
\* failure, never with neither.
C16_BoundedRetry ==
  /\ auth.attempt <= auth.retries \/ auth.pc = "idle"
  /\ auth.pc = "done" => auth.result \in {"client", "exit"}

(* ------------------------ login and the session ----------------------- *)
\* Python's True, as a value of the session
True == "True"

\* the accounts a login may reach, each with the client object that serves
\* it and the answer of sp.current_user(): a profile with id and display
\* name, one whose display name is None, one without an id
Profiles ==
  {[client |-> "sp1", id |-> "u1", display_name |-> "Ann"],
   [client |-> "sp2", id |-> "u2", display_name |-> None],
   [client |-> "sp3", id |-> Absent, display_name |-> "Bob"]}

\* current_user.get("id", "Unknown User")
UserId(profile) == IF profile.id = Absent THEN "Unknown User" ELSE profile.id

\* current_user.get("display_name") or user_id
DisplayName(profile) ==
  IF profile.display_name \in {None, Absent, ""} THEN UserId(profile)
  ELSE profile.display_name

\* the client object that answers current_user() with profile
ClientOf(profile) == profile.client

\* st.session_state.get(key): None for a key not held
SessionGet(sess, key) == IF sess[key] = Absent THEN None ELSE sess[key]

check_authentication(sess) ==
  IF sess.authenticated = True
  THEN <<SessionGet(sess, "sp"), SessionGet(sess, "user_id"),
         SessionGet(sess, "display_name")>>
  ELSE NoneTriple

\* lines 44-47 of render_login_page
StoreLogin(sess, profile) ==
  [sess EXCEPT !.sp = ClientOf(profile), !.user_id = UserId(profile),
               !.display_name = DisplayName(profile), !.authenticated = True]

\* the user's keys left in the session
logout_KeepsUser(sess) ==
  [sess EXCEPT !.sp = Absent, !.authenticated = Absent]

logout(sess) == EmptySession

LoginFailed == "Login failed"

\* sp.current_user() raising instead of answering
CurrentUserRaises == [client |-> None, id |-> Absent, display_name |-> Absent]

InitLogin ==
  /\ df = [cols |-> {}, song |-> <<>>, val |-> <<>>]
  /\ tieRank = <<>>
  /\ call = NoArgs
  /\ ret = NoCall
  /\ prev = NoPrev
  /\ frames = NoFrames
  /\ auth = AuthIdle
  /\ login = LoginIdle
  /\ loader = LoaderIdle
  /\ hist = HistIdle
  /\ export = ExportIdle
  /\ select = SelectIdle
  /\ page = PageIdle

\* main: not authenticated, the login page is rendered and the button is
\* clicked: get_spotify_client() is entered with its defaults
ClickLogin ==
  /\ login.pc = "page" /\ login.process = "running"
  /\ check_authentication(login.sess)[1] = None
  /\ auth.pc = "idle"
  /\ login' = [login EXCEPT !.pc = "connecting", !.message = ""]
  /\ auth' = ClientCall(DefaultRetries, DefaultDelay)
  /\ UNCHANGED <<df, tieRank, call, ret, prev, frames, loader, hist, export, select, page>>

\* get_spotify_client has returned; sp.current_user() answers a profile,
\* which is stored, or raises (as does a call on None), which is caught
ClientReturned(answer) ==
  /\ login.pc = "connecting"
  /\ auth.pc = "done" /\ auth.result \in {"client", "None"}
  /\ login' =
       IF auth.result = "client" /\ answer # CurrentUserRaises
       THEN [login EXCEPT !.pc = "page",
                          !.sess = StoreLogin(@, answer),
                          !.stored = <<ClientOf(answer), UserId(answer), DisplayName(answer)>>,
                          !.loggedOut = FALSE,
                          !.outcome = "success",
                          !.message = "Successfully logged in"]
       ELSE [login EXCEPT !.pc = "page", !.outcome = "failed", !.message = LoginFailed]
  /\ auth' = AuthIdle
  /\ UNCHANGED <<df, tieRank, call, ret, prev, frames, loader, hist, export, select, page>>

\* get_spotify_client has called sys.exit(1): SystemExit is not an Exception
\* and passes the except clause of render_login_page. What the host does
\* with it is the host's: the interpreter exits, or only the script run ends.
ClientExits(host) ==
  /\ login.pc = "connecting"
  /\ auth.pc = "done" /\ auth.result = "exit"
  /\ login' = [login EXCEPT !.pc = IF host = "process" THEN "gone" ELSE "page",
                            !.process = IF host = "process" THEN "exited" ELSE "running",
                            !.outcome = "terminal"]
  /\ auth' = AuthIdle
  /\ UNCHANGED <<df, tieRank, call, ret, prev, frames, loader, hist, export, select, page>>

\* main: authenticated, the sidebar's Logout button is clicked
Logout ==
  /\ login.pc = "page" /\ login.process = "running"
  /\ check_authentication(login.sess)[1] # None
  /\ login' = [login EXCEPT !.sess = logout(@), !.loggedOut = TRUE, !.message = ""]
  /\ UNCHANGED <<df, tieRank, call, ret, prev, frames, auth, loader, hist, export, select, page>>

NextLogin ==
  \/ ClickLogin
  \/ AttemptSucceeds
  \/ AttemptOauthError
  \/ AttemptUnexpectedError
  \/ NextAttempt
  \/ \E answer \in Profiles \cup {CurrentUserRaises} : ClientReturned(answer)
  \/ \E host \in {"process", "script"} : ClientExits(host)
  \/ Logout

SpecLogin == InitLogin /\ [][NextLogin]_vars

\* C17: a terminal authentication failure is shown to the user as a login
\* failure, the process keeps running and the session stays
\* unauthenticated.
C17_FailureSurfaced ==
  (login.outcome = "terminal" /\ login.pc # "connecting") =>
    /\ login.message = LoginFailed
    /\ login.process = "running"
    /\ check_authentication(login.sess) = NoneTriple

\* C19: check_authentication returns a client, user id and display name
\* only if the authenticated flag is set, and then the three stored by the
\* last successful login; after logout() none of the four keys remains and
\* check_authentication returns (None, None, None) until the next
\* successful login.
C19_SessionConsistent ==
  /\ check_authentication(login.sess) # NoneTriple =>
       /\ login.sess.authenticated = True
       /\ check_authentication(login.sess) = login.stored
  /\ login.loggedOut =>
       /\ login.sess = EmptySession
       /\ check_authentication(login.sess) = NoneTriple

\* logged in, logged out, then a login that failed
C19_Witness ==
  /\ login.loggedOut /\ login.stored # NoneTriple
  /\ login.outcome = "failed" /\ login.pc = "page"

(* ----------------------- validate_and_clean_csv ----------------------- *)
\* A CSV file is its header (columns, in file order) and its rows, each a
\* function from the columns to cell texts.
Range(f) == {f[i] : i \in DOMAIN f}

\* the headers of the modelled files: the expected columns; no id; the
\* columns of the project's songs_normalize.csv (artist first, title in
\* 'song'); the same with the title first
CsvHeaders ==
  {<<"id", "name", "artist">>, <<"name", "artist">>, <<"artist", "song">>,
   <<"song", "artist">>}

CsvCells(col) ==
  IF col = "id" THEN {"", "i1", "i1 ", "i2"}
  ELSE IF col = "artist" THEN {"X", "Y"}
  ELSE {"S1", "S2"}

CsvRows(columns) ==
  {r \in [Range(columns) -> {"", "i1", "i1 ", "i2", "X", "Y", "S1", "S2"}] :
     \A c \in Range(columns) : r[c] \in CsvCells(c)}

CsvFiles ==
  UNION {UNION {{[columns |-> h, rows |-> rs] : rs \in [1..n -> CsvRows(h)]} :
                n \in 0..MaxCsvRows} :
         h \in CsvHeaders}

\* str.strip() on the modelled cell texts
Strip(v) == IF v = "i1 " THEN "i1" ELSE v

\* the rows of the index set keep, in their order
RECURSIVE KeepRows(_, _, _)
KeepRows(rows, keep, i) ==
  IF i > Len(rows) THEN <<>>
  ELSE (IF i \in keep THEN <<rows[i]>> ELSE <<>>) \o KeepRows(rows, keep, i + 1)

\* df["id"] = df["id"].astype(str).str.strip(); df = df[df["id"].str.len() > 0]
CleanIds(csv) ==
  IF "id" \in Range(csv.columns)
  THEN LET stripped == [i \in DOMAIN csv.rows |->
                          [csv.rows[i] EXCEPT !["id"] = Strip(@)]]
       IN KeepRows(stripped, {i \in DOMAIN stripped : stripped[i]["id"] # ""}, 1)
  ELSE csv.rows

\* duplicate_cols of validate_and_clean_csv
duplicate_cols(columns) ==
  IF "id" \in Range(columns) THEN {"id"}
  ELSE IF {"name", "artist"} \subseteq Range(columns) THEN {"name", "artist"}
  ELSE {columns[1]}

\* df.drop_duplicates(subset=cols): the first row of each key is kept
drop_duplicates(rows, cols) ==
  KeepRows(rows,
           {i \in DOMAIN rows :
              \A j \in 1..(i - 1) : \E c \in cols : rows[j][c] # rows[i][c]},
           1)

\* the outcome of validate_and_clean_csv on a readable file
validate_and_clean_csv(csv) ==
  LET df1 == CleanIds(csv)
      df2 == drop_duplicates(df1, duplicate_cols(csv.columns))
  IN IF df2 = <<>>
     THEN [kind |-> "raised", rows |-> <<>>]
     ELSE [kind |-> "returned", rows |-> df2]

InitLoader ==
  /\ df = [cols |-> {}, song |-> <<>>, val |-> <<>>]
  /\ tieRank = <<>>
  /\ call = NoArgs
  /\ ret = NoCall
  /\ prev = NoPrev
  /\ frames = NoFrames
  /\ auth = AuthIdle
  /\ login = LoginIdle
  /\ loader \in {[LoaderIdle EXCEPT !.pc = "file", !.csv = f] : f \in CsvFiles}
  /\ hist = HistIdle
  /\ export = ExportIdle
  /\ select = SelectIdle
  /\ page = PageIdle

\* validate_and_clean_csv(csv_path) runs on the file
CleanCsv ==
  /\ loader.pc = "file"
  /\ LET out == validate_and_clean_csv(loader.csv)
     IN loader' = [loader EXCEPT !.pc = "cleaned", !.kind = out.kind, !.rows = out.rows]
  /\ UNCHANGED <<df, tieRank, call, ret, prev, frames, auth, login, hist, export, select, page>>

NextLoader == CleanCsv

SpecLoader == InitLoader /\ [][NextLoader]_vars

\* the identifier of a song: the id column when present, otherwise its
\* title ('name', or 'song' where the file has no 'name') and its artist
IdentifierCols(columns) ==
  IF "id" \in Range(columns) THEN {"id"}
  ELSE {c \in Range(columns) : c \in {"name", "song", "artist"}}

NoEmptyId(csv) ==
  \A i \in DOMAIN csv.rows : "id" \in Range(csv.columns) => csv.rows[i]["id"] # ""

\* C18: the catalog returned by validate_and_clean_csv holds exactly the
\* first occurrence of each distinct song identifier of the input (ids
\* compared without surrounding blanks), in the original order.
C18_FirstOccurrences ==
  (loader.pc = "cleaned" /\ loader.kind = "returned" /\ NoEmptyId(loader.csv)) =>
    LET rows == [i \in DOMAIN loader.csv.rows |->
                   IF "id" \in Range(loader.csv.columns)
                   THEN [loader.csv.rows[i] EXCEPT !["id"] = Strip(@)]
                   ELSE loader.csv.rows[i]]
        ident == IdentifierCols(loader.csv.columns)
        first == {i \in DOMAIN rows :
                    \A j \in 1..(i - 1) : \E c \in ident : rows[j][c] # rows[i][c]}
    IN loader.rows = KeepRows(rows, first, 1)

(* ------------------------ track_recommendation ------------------------ *)
DefaultMaxHistory == 10

\* lst[-k:] of Python: the last k elements, and for k = 0 the whole list
\* (-0 is 0); for k < 0 the list without its first -k elements
LastSlice(lst, k) ==
  IF k = 0 THEN lst
  ELSE IF k > 0 THEN SubSeq(lst, Len(lst) - Min(k, Len(lst)) + 1, Len(lst))
  ELSE SubSeq(lst, Min(-k, Len(lst)) + 1, Len(lst))

\* the list after track_recommendation(base_song, recommendations, ., max_history)
Tracked(history, entry, max_history) ==
  LET appended == Append(history, entry)
  IN IF Len(appended) > max_history THEN LastSlice(appended, max_history)
     ELSE appended

\* (base_song, len(recommendations)) of the tracked calls
Entries == {<<"A", 0>>, <<"A", 2>>, <<"B", 2>>}

InitHist ==
  /\ df = [cols |-> {}, song |-> <<>>, val |-> <<>>]
  /\ tieRank = <<>>
  /\ call = NoArgs
  /\ ret = NoCall
  /\ prev = NoPrev
  /\ frames = NoFrames
  /\ auth = AuthIdle
  /\ login = LoginIdle
  /\ loader = LoaderIdle
  /\ hist = HistIdle
  /\ export = ExportIdle
  /\ select = SelectIdle
  /\ page = PageIdle

\* track_recommendation(base_song, recommendations, st.session_state, max_history)
TrackRecommendation(entry, max_history) ==
  /\ Len(hist.log) < MaxTracked
  /\ hist' = [present |-> TRUE,
              history |-> Tracked(hist.history, entry, max_history),
              log |-> Append(hist.log, entry),
              max_history |-> max_history,
              tracked |-> TRUE]
  /\ UNCHANGED <<df, tieRank, call, ret, prev, frames, auth, login, loader, export, select, page>>

\* the analytics page creates the key when the session does not hold it
OpenAnalyticsPage ==
  /\ ~hist.present
  /\ hist' = [hist EXCEPT !.present = TRUE, !.history = <<>>]
  /\ UNCHANGED <<df, tieRank, call, ret, prev, frames, auth, login, loader, export, select, page>>

NextHist ==
  \/ \E entry \in Entries, max_history \in (0..MaxHistory) \cup {DefaultMaxHistory} :
       TrackRecommendation(entry, max_history)
  \/ OpenAnalyticsPage

SpecHist == InitHist /\ [][NextHist]_vars

\* C20: after every call of track_recommendation the history holds at most
\* max_history entries, and they are the entries of the most recent calls,
\* oldest first.
C20_BoundedHistory ==
  hist.tracked =>
    /\ Len(hist.history) <= hist.max_history
    /\ Len(hist.history) <= Len(hist.log)
    /\ hist.history =
         SubSeq(hist.log, Len(hist.log) - Len(hist.history) + 1, Len(hist.log))

(* --------------------------- playlist export -------------------------- *)
\* create_playlist_from_recommendations and create_playlist_from_selected_songs
\* have the same body; fn says which one runs.
batch_size == 100

ExportFns == {"create_playlist_from_recommendations", "create_playlist_from_selected_songs"}

\* the track found for row k
Uri(k) == k

\* what sp.search answers for the rows, row by row: every combination for
\* short exports, and for exports that need several batches three patterns
\* (all found; every third row not found; the second row raising)
SearchOutcomes ==
  UNION {[1..n -> {"found", "none", "error"}] : n \in 0..MaxExportRows}
  \cup UNION {{[k \in 1..n |-> "found"],
               [k \in 1..n |-> IF k % 3 = 0 THEN "none" ELSE "found"],
               [k \in 1..n |-> IF k = 2 THEN "error" ELSE "found"]} :
              n \in {batch_size, batch_size + 1, 2 * batch_size + 1}}

\* a search error ending the loop over the rows
AfterRow_StopsOnError(e, outcome) ==
  IF outcome = "found"
  THEN [e EXCEPT !.uris = Append(@, Uri(e.i)), !.added = Append(@, e.i), !.i = @ + 1]
  ELSE IF outcome = "none"
  THEN [e EXCEPT !.failed = Append(@, e.i), !.i = @ + 1]
  ELSE [e EXCEPT !.failed = Append(@, e.i), !.i = Len(e.outcomes) + 1]

\* one pass of the loop body for row e.i: try / if items / else / except
AfterRow(e, outcome) ==
  IF outcome = "found"
  THEN [e EXCEPT !.uris = Append(@, Uri(e.i)), !.added = Append(@, e.i), !.i = @ + 1]
  ELSE [e EXCEPT !.failed = Append(@, e.i), !.i = @ + 1]

\* uris[i:i + batch_size]
Batch(uris, i) == SubSeq(uris, i + 1, Min(i + batch_size, Len(uris)))

InitExport ==
  /\ df = [cols |-> {}, song |-> <<>>, val |-> <<>>]
  /\ tieRank = <<>>
  /\ call = NoArgs
  /\ ret = NoCall
  /\ prev = NoPrev
  /\ frames = NoFrames
  /\ auth = AuthIdle
  /\ login = LoginIdle
  /\ loader = LoaderIdle
  /\ hist = HistIdle
  /\ export \in {[ExportIdle EXCEPT !.pc = "create", !.fn = f, !.outcomes = o] :
                   f \in ExportFns, o \in SearchOutcomes}
  /\ select = SelectIdle
  /\ page = PageIdle

\* playlist = sp.user_playlist_create(...): a playlist, an answer without
\* an id, or an exception
CreatePlaylist(answer) ==
  /\ export.pc = "create"
  /\ export' =
       IF answer = "raises" THEN [export EXCEPT !.pc = "done", !.result = "raised"]
       ELSE [export EXCEPT !.pc = "search", !.playlist = answer,
                           !.created = (answer = "ok"), !.i = 1]
  /\ UNCHANGED <<df, tieRank, call, ret, prev, frames, auth, login, loader, hist,
                 select, page>>

\* for _, row in rec_df.iterrows(): the search of one row
SearchRow ==
  /\ export.pc = "search" /\ export.i <= Len(export.outcomes)
  /\ export' = AfterRow(export, export.outcomes[export.i])
  /\ UNCHANGED <<df, tieRank, call, ret, prev, frames, auth, login, loader, hist,
                 select, page>>

\* after the loop: if not uris: return None; if not playlist or "id" not
\* in playlist: return None; else the batch loop starts
EndOfRows ==
  /\ export.pc = "search" /\ export.i > Len(export.outcomes)
  /\ export' =
       IF export.uris = <<>> \/ export.playlist # "ok"
       THEN [export EXCEPT !.pc = "done", !.result = "None"]
       ELSE [export EXCEPT !.pc = "add", !.next = 0]
  /\ UNCHANGED <<df, tieRank, call, ret, prev, frames, auth, login, loader, hist,
                 select, page>>

\* sp.playlist_add_items(playlist_id, batch_uris): accepted, or an exception
AddBatch(answer) ==
  /\ export.pc = "add" /\ export.next < Len(export.uris)
  /\ export' =
       IF answer = "raises" THEN [export EXCEPT !.pc = "done", !.result = "raised"]
       ELSE [export EXCEPT !.sent = Append(@, Batch(export.uris, export.next)),
                           !.next = @ + batch_size]
  /\ UNCHANGED <<df, tieRank, call, ret, prev, frames, auth, login, loader, hist,
                 select, page>>

\* return playlist['external_urls']['spotify']
ExportReturns ==
  /\ export.pc = "add" /\ export.next >= Len(export.uris)
  /\ export' = [export EXCEPT !.pc = "done", !.result = "url"]
  /\ UNCHANGED <<df, tieRank, call, ret, prev, frames, auth, login, loader, hist,
                 select, page>>

\* the caller after the call. _render_playlist_creation (ui.py) has no
\* try: an exception leaves it, a return of any value is followed by
\* st.success and the link. main (custom playlist) does the same inside
\* try / except Exception, which shows an error.
CallerReports ==
  /\ export.pc = "done"
  /\ export' =
       [export EXCEPT !.pc = "reported",
                      !.ui = IF export.result # "raised" THEN "success and link"
                             ELSE IF export.fn = "create_playlist_from_selected_songs"
                             THEN "error" ELSE "exception"]
  /\ UNCHANGED <<df, tieRank, call, ret, prev, frames, auth, login, loader, hist,
                 select, page>>

NextExport ==
  \/ \E answer \in {"ok", "noid", "raises"} : CreatePlaylist(answer)
  \/ SearchRow
  \/ EndOfRows
  \/ \E answer \in {"ok", "raises"} : AddBatch(answer)
  \/ ExportReturns
  \/ CallerReports

SpecExport == InitExport /\ [][NextExport]_vars

RECURSIVE Flatten(_)
Flatten(batches) ==
  IF batches = <<>> THEN <<>> ELSE Head(batches) \o Flatten(Tail(batches))

\* C21: when an export completes, every row was classified exactly once as
\* added (the rows found) or failed, and the URIs of the added rows were
\* sent exactly once, in row order, in consecutive batches of at most
\* batch_size; a search error on a row leaves the later rows processed.
C21_ExportComplete ==
  export.result = "url" =>
    LET n == Len(export.outcomes)
    IN /\ Len(export.added) + Len(export.failed) = n
       /\ Range(export.added) \cup Range(export.failed) = 1..n
       /\ Range(export.added) = {k \in 1..n : export.outcomes[k] = "found"}
       /\ \A a, b \in DOMAIN export.added : a < b => export.added[a] < export.added[b]
       /\ Flatten(export.sent) = [k \in DOMAIN export.added |-> Uri(export.added[k])]
       /\ \A b \in DOMAIN export.sent :
            Len(export.sent[b]) >= 1 /\ Len(export.sent[b]) <= batch_size

\* an export of several batches, a search error before its last rows
C21_Witness ==
  /\ export.result = "url"
  /\ Len(export.sent) >= 2
  /\ \E k \in DOMAIN export.outcomes :
       export.outcomes[k] = "error" /\ k < Len(export.outcomes)

\* C23: when an export function returns None, the call has created no
\* playlist on the music service.
C23_NoPlaylistOnNone ==
  export.result = "None" => ~export.created

\* C24: the caller shows the success message and the link only when the
\* export returned a playlist URL.
C24_SuccessOnlyWithUrl ==
  (export.pc = "reported" /\ export.ui = "success and link") => export.result = "url"

(* --------------------- custom playlist selection ---------------------- *)
\* A text is the sequence of its parts between the separators " - ":
\* "S1 - Live" is <<"S1", "Live">>. Joining with " - " is concatenation,
\* split(" - ") gives the parts back.
SongTitles == {<<"S1">>, <<"S2">>, <<"S1", "Live">>}

SongArtists == {<<"X">>, <<"Y">>}

SongRows == {[song |-> t, artist |-> a] : t \in SongTitles, a \in SongArtists}

\* f"{row[track_column]} - {row[artist_column]}"
Display(row) == row.song \o row.artist

\* get_available_songs(df): the entries of the dropdown
get_available_songs(songs) == {Display(songs[i]) : i \in DOMAIN songs}

\* song.split(" - ")[0]
SplitFirst(display) == <<Head(display)>>

\* the rows of the index set keep, as their positions, in catalog order
RECURSIVE RowsIn(_, _, _)
RowsIn(songs, keep, i) ==
  IF i > Len(songs) THEN <<>>
  ELSE (IF i \in keep THEN <<i>> ELSE <<>>) \o RowsIn(songs, keep, i + 1)

\* df[df['song'].isin([song.split(" - ")[0] for song in selected_songs])]
selected_songs_df(songs, selected_songs) ==
  LET selected_song_names == {SplitFirst(d) : d \in selected_songs}
  IN RowsIn(songs, {i \in DOMAIN songs : songs[i].song \in selected_song_names}, 1)

InitSelect ==
  /\ df = [cols |-> {}, song |-> <<>>, val |-> <<>>]
  /\ tieRank = <<>>
  /\ call = NoArgs
  /\ ret = NoCall
  /\ prev = NoPrev
  /\ frames = NoFrames
  /\ auth = AuthIdle
  /\ login = LoginIdle
  /\ loader = LoaderIdle
  /\ hist = HistIdle
  /\ export = ExportIdle
  /\ select \in UNION {{[SelectIdle EXCEPT !.pc = "page", !.songs = ss] :
                           ss \in [1..n -> SongRows]} : n \in 0..MaxSelectRows}
  /\ page = PageIdle

\* the user picks entries in the multiselect and clicks Create Custom
\* Playlist; main builds selected_songs_df for the exporter
CreateCustomPlaylist(selected_songs) ==
  /\ select.pc = "page"
  /\ selected_songs # {}
  /\ select' = [select EXCEPT !.pc = "passed", !.chosen = selected_songs,
                              !.rows = selected_songs_df(select.songs, selected_songs)]
  /\ UNCHANGED <<df, tieRank, call, ret, prev, frames, auth, login, loader, hist,
                 export, page>>

NextSelect ==
  \E selected_songs \in SUBSET get_available_songs(select.songs) :
    CreateCustomPlaylist(selected_songs)

SpecSelect == InitSelect /\ [][NextSelect]_vars

\* C25: the catalog rows passed to the exporter for a custom playlist are
\* exactly the rows whose "title - artist" entry the user selected.
C25_ExactSelection ==
  select.pc = "passed" =>
    Range(select.rows) =
      {i \in DOMAIN select.songs : Display(select.songs[i]) \in select.chosen}

(* --------------------------- the page runs ---------------------------- *)
\* One run of main.py or pages/analytics.py from top to bottom, section by
\* section, on the session state the earlier runs left.
Views == {"main", "analytics"}

\* the script goes on although it has no client
StopUnlessClient_NoStop(pg, sp) ==
  [pg EXCEPT !.pc = "load"]

\* if not sp: st.stop()
StopUnlessClient(pg, sp) ==
  IF sp = None THEN [pg EXCEPT !.pc = "idle"] ELSE [pg EXCEPT !.pc = "load"]

InitPage ==
  /\ df = [cols |-> {}, song |-> <<>>, val |-> <<>>]
  /\ tieRank = <<>>
  /\ call = NoArgs
  /\ ret = NoCall
  /\ prev = NoPrev
  /\ frames = NoFrames
  /\ auth = AuthIdle
  /\ login = LoginIdle
  /\ loader = LoaderIdle
  /\ hist = HistIdle
  /\ export = ExportIdle
  /\ select = SelectIdle
  /\ page = PageIdle

\* a run starts with check_authentication(). main goes on to the login
\* page when it gave no client; the analytics page stops there.
RunStarts(view) ==
  /\ page.pc = "idle" /\ page.process = "running"
  /\ LET sp == check_authentication(page.sess)[1]
         started == [page EXCEPT !.view = view, !.authed = (sp # None),
                                 !.loaded = FALSE, !.acted = FALSE,
                                 !.shown = Absent, !.shownTo = None]
     IN page' = IF sp = None /\ view = "main"
                THEN [started EXCEPT !.pc = "login"]
                ELSE StopUnlessClient(started, sp)
  /\ UNCHANGED <<df, tieRank, call, ret, prev, frames, auth, login, loader, hist,
                 export, select>>

\* render_login_page with the button not clicked: (None, None, None)
LoginNotClicked ==
  /\ page.pc = "login"
  /\ page' = StopUnlessClient(page, None)
  /\ UNCHANGED <<df, tieRank, call, ret, prev, frames, auth, login, loader, hist,
                 export, select>>

\* render_login_page with the button clicked: the login stores the client
\* and the profile, or fails and returns (None, None, None)
LoginClicked(answer) ==
  /\ page.pc = "login"
  /\ page' =
       IF answer = CurrentUserRaises THEN StopUnlessClient(page, None)
       ELSE StopUnlessClient([page EXCEPT !.sess = StoreLogin(@, answer),
                                          !.authed = TRUE, !.loggedOut = FALSE],
                             ClientOf(answer))
  /\ UNCHANGED <<df, tieRank, call, ret, prev, frames, auth, login, loader, hist,
                 export, select>>

\* the login ends in sys.exit(1): the run is over, and with it the process
\* where the host lets SystemExit through
LoginExits(host) ==
  /\ page.pc = "login"
  /\ page' = [page EXCEPT !.pc = "idle",
                          !.process = IF host = "process" THEN "exited" ELSE "running"]
  /\ UNCHANGED <<df, tieRank, call, ret, prev, frames, auth, login, loader, hist,
                 export, select>>

\* df = load_songs_from_csv(DEFAULT_CSV_PATH, sp), or its exception, after
\* which both pages show an error and end the run
LoadData(outcome) ==
  /\ page.pc = "load"
  /\ page' =
       IF outcome = "error" THEN [page EXCEPT !.pc = "idle"]
       ELSE [page EXCEPT !.loaded = TRUE,
                         !.pc = IF page.view = "main" THEN "sidebar" ELSE "dashboard"]
  /\ UNCHANGED <<df, tieRank, call, ret, prev, frames, auth, login, loader, hist,
                 export, select>>

\* the sidebar of main: Logout clicked (logout(); st.rerun()), Go to
\* Analytics clicked (st.switch_page), or neither
Sidebar(clicked) ==
  /\ page.pc = "sidebar"
  /\ page' =
       IF clicked = "logout"
       THEN [page EXCEPT !.sess = logout(@), !.loggedOut = TRUE, !.pc = "idle"]
       ELSE IF clicked = "analytics" THEN [page EXCEPT !.pc = "idle"]
       ELSE [page EXCEPT !.pc = "recommend"]
  /\ UNCHANGED <<df, tieRank, call, ret, prev, frames, auth, login, loader, hist,
                 export, select>>

\* the recommendation section without a click on Find Similar Songs
NoRecommendation ==
  /\ page.pc = "recommend"
  /\ page' = [page EXCEPT !.pc = "display"]
  /\ UNCHANGED <<df, tieRank, call, ret, prev, frames, auth, login, loader, hist,
                 export, select>>

\* Find Similar Songs clicked for song: recommend_from_song gives nrecs
\* songs, the request is tracked, and a result that is not empty is stored
FindSimilar(song, nrecs) ==
  /\ page.pc = "recommend"
  /\ Len(page.history) < MaxPageTracked
  /\ LET tracked == [page EXCEPT !.history = Tracked(@, <<song, nrecs>>, DefaultMaxHistory),
                                 !.has_history = TRUE, !.acted = TRUE,
                                 !.pc = "display"]
     IN page' = IF nrecs > 0
                THEN [tracked EXCEPT !.recommendations = song, !.selected_song = song,
                                     !.owner = page.sess.user_id]
                ELSE tracked
  /\ UNCHANGED <<df, tieRank, call, ret, prev, frames, auth, login, loader, hist,
                 export, select>>

\* if 'recommendations' in st.session_state: the stored recommendations
\* are rendered, with the button Create Spotify Playlist, clicked or not
DisplayRecommendations(clicked) ==
  /\ page.pc = "display"
  /\ page' =
       IF page.recommendations = Absent THEN [page EXCEPT !.pc = "custom"]
       ELSE [page EXCEPT !.shown = page.recommendations,
                         !.shownTo = page.sess.user_id,
                         !.acted = @ \/ clicked, !.pc = "custom"]
  /\ UNCHANGED <<df, tieRank, call, ret, prev, frames, auth, login, loader, hist,
                 export, select>>

\* the custom playlist section, its button clicked or not; the run ends
CustomPlaylist(clicked) ==
  /\ page.pc = "custom"
  /\ page' = [page EXCEPT !.acted = @ \/ clicked, !.pc = "idle"]
  /\ UNCHANGED <<df, tieRank, call, ret, prev, frames, auth, login, loader, hist,
                 export, select>>

\* the analytics page creates the history when the session has none and
\* shows the dashboard; the run ends
Dashboard ==
  /\ page.pc = "dashboard"
  /\ page' = [page EXCEPT !.has_history = TRUE, !.pc = "idle"]
  /\ UNCHANGED <<df, tieRank, call, ret, prev, frames, auth, login, loader, hist,
                 export, select>>

NextPage ==
  \/ \E view \in Views : RunStarts(view)
  \/ LoginNotClicked
  \/ \E answer \in Profiles \cup {CurrentUserRaises} : LoginClicked(answer)
  \/ \E host \in {"process", "script"} : LoginExits(host)
  \/ \E outcome \in {"ok", "error"} : LoadData(outcome)
  \/ \E clicked \in {"logout", "analytics", "none"} : Sidebar(clicked)
  \/ NoRecommendation
  \/ \E song \in {"A", "B"}, nrecs \in {0, 2} : FindSimilar(song, nrecs)
  \/ \E clicked \in BOOLEAN : DisplayRecommendations(clicked)
  \/ \E clicked \in BOOLEAN : CustomPlaylist(clicked)
  \/ Dashboard

SpecPage == InitPage /\ [][NextPage]_vars

\* C22: a run loads the catalog, recommends or exports only if the session
\* is authenticated in that run; an unauthenticated run stops before the
\* catalog is loaded.
C22_AuthBeforeData ==
  /\ (page.loaded \/ page.acted) => page.authed
  /\ page.pc \notin {"idle", "login"} => page.authed

\* a run that logged in, loaded the catalog and recommended or exported
C22_Witness ==
  /\ page.authed /\ page.loaded /\ page.acted
  /\ page.view = "main" /\ page.pc = "custom"

\* C26: after logout the stored recommendations, the selected song and the
\* recommendation history are gone from the session state, and the user
\* who logs in next is not shown recommendations another user asked for.
C26_NoLeftover ==
  /\ page.loggedOut =>
       /\ page.recommendations = Absent
       /\ page.selected_song = Absent
       /\ ~page.has_history
  /\ page.shown # Absent => page.owner = page.shownTo

\* C13: a recommendation call leaves the catalog as it was: rows, row
\* order, columns and cells, missing cells included.
C13_CatalogUnchanged == [][df' = df]_vars

C13_Witness ==
  /\ Called /\ ret.kind = "returned" /\ ret.recs # <<>>
  /\ \E i \in Rows(df) : \E c \in FeatureCols(df) : df.val[i][c] = NaN

\* column c has the same value in every row
ConstantCol(d, c) == \A i, j \in Rows(d) : d.val[i][c] = d.val[j][c]

\* C15: a feature column with the same value in every row is standardized
\* to 0 in every row and the call completes.
C15_ConstantColumn ==
  (Called /\ QueryPresent) =>
    \A c \in FeatureCols(df) :
      ConstantCol(df, c) =>
        /\ ret.kind = "returned"
        /\ \A i \in Rows(df) : Transform(df, Fit(df))[i][c] = 0

C15_Witness ==
  /\ Called /\ QueryPresent /\ ret.kind = "returned" /\ ret.recs # <<>>
  /\ \E c, e \in FeatureCols(df) :
       /\ ConstantCol(df, c) /\ \A i \in Rows(df) : df.val[i][c] = 1
       /\ ~ConstantCol(df, e)

====
